---- MODULE Spec2Model ----
(***************************************************************************)
(* A model of stickerV2.py: the interactive shell (main), the credential   *)
(* file (load_token, save_token) and TelegramStickerDownloader             *)
(* (download_sticker_pack and the helpers it calls).                       *)
(*                                                                         *)
(* Text is a sequence of one-character strings, so that split, splitext,   *)
(* lower, isalnum and os.path.join are computed character by character.    *)
(* A JSON object is a record whose DOMAIN is the set of keys it holds, so  *)
(* that d['k'] on a missing key is a KeyError and d.get('k') is absence.   *)
(***************************************************************************)
EXTENDS Integers, Sequences, FiniteSets, TLC

(***************************************************************************)
(* Bounds of the model.                                                    *)
(***************************************************************************)
\* Stickers an unpredictable service hands out in one session (Spec).
MaxStickers == 4
\* Stickers in the pack of a stable service (SpecStable).
MaxPack == 2
\* Calls of download_sticker_pack in one session with a stable service.
MaxRuns == 2
\* Bytes of a sticker file as the service streams it.
BodyBytes == 10000

(***************************************************************************)
(* Program constants.                                                      *)
(***************************************************************************)
\* iter_content(chunk_size=8192)
ChunkSize == 8192
\* OUTPUT_FOLDER = "stickers"
OUTPUT_FOLDER == <<"s", "t", "i", "c", "k", "e", "r", "s">>
\* CONFIG_FILE = "config.json": the one credential file, modelled by its content.
CONFIG_FILE == "config.json"

(***************************************************************************)
(* Characters.                                                             *)
(***************************************************************************)
UpperCase == <<"A", "B", "E", "I", "P", "Q", "T", "U", "W">>
LowerCase == <<"a", "b", "e", "i", "p", "q", "t", "u", "w">>
\* U+1F986 is the duck pictograph: one code point, not alphanumeric.
Duck == "U+1F986"

\* str.isalnum() of one character: letters and digits, nothing else.
isalnum(c) ==
    c \in {"A", "B", "C", "D", "E", "F", "G", "H", "I", "J", "K", "L", "M",
           "N", "O", "P", "Q", "R", "S", "T", "U", "V", "W", "X", "Y", "Z",
           "a", "b", "c", "d", "e", "f", "g", "h", "i", "j", "k", "l", "m",
           "n", "o", "p", "q", "r", "s", "t", "u", "v", "w", "x", "y", "z",
           "0", "1", "2", "3", "4", "5", "6", "7", "8", "9"}

\* str.lower() of one character.
LowerChar(c) ==
    IF \E k \in DOMAIN UpperCase : UpperCase[k] = c
    THEN LowerCase[CHOOSE k \in DOMAIN UpperCase : UpperCase[k] = c]
    ELSE c

\* str.lower()
lower(s) == [k \in DOMAIN s |-> LowerChar(s[k])]

\* s[from:] in Python written with 1-based positions: the characters from..Len(s).
Slice(s, from) == SubSeq(s, from, Len(s))

\* str.rfind(c) as a 1-based position, 0 when c does not occur.
rfind(s, c) ==
    IF \E k \in DOMAIN s : s[k] = c
    THEN CHOOSE k \in DOMAIN s : s[k] = c /\ \A j \in DOMAIN s : s[j] = c => j <= k
    ELSE 0

\* sticker_pack_link.split('/')[-1]: what follows the last '/'.
LastSegment(link) == Slice(link, rfind(link, "/") + 1)

\* ''.join(c for c in s if c.isalnum())
RECURSIVE KeepAlnum(_)
KeepAlnum(s) ==
    IF s = << >> THEN << >>
    ELSE (IF isalnum(Head(s)) THEN <<Head(s)>> ELSE << >>) \o KeepAlnum(Tail(s))

\* os.path.splitext(p): <<root, ext>>. The extension starts at the last dot of
\* the last path component, unless that component has only dots before it.
splitext(p) ==
    LET sep == rfind(p, "/")
        dot == rfind(p, ".")
    IN  IF dot > sep /\ \E k \in (sep + 1)..(dot - 1) : p[k] # "."
        THEN <<SubSeq(p, 1, dot - 1), Slice(p, dot)>>
        ELSE <<p, << >> >>

\* os.path.join(a, b) on a POSIX system.
path_join(a, b) ==
    IF b # << >> /\ Head(b) = "/" THEN b
    ELSE IF a = << >> \/ a[Len(a)] = "/" THEN a \o b
    ELSE a \o <<"/">> \o b

(***************************************************************************)
(* Values.                                                                 *)
(***************************************************************************)
\* Python's None where a JSON object was expected.
None == [none |-> TRUE]
IsNone(v) == "none" \in DOMAIN v

\* d.get(key): the value, or None when the key is missing.
Get(d, key) == IF key \in DOMAIN d THEN d[key] ELSE None

\* The files of a directory tree: path -> content.
NoFiles == [p \in {} |-> None]
Put(files, path, content) ==
    [p \in DOMAIN files \cup {path} |-> IF p = path THEN content ELSE files[p]]
Del(files, path) == [p \in DOMAIN files \ {path} |-> files[p]]

\* What the service streams for the file a file_id names, and what reaches the
\* disk when the first `bytes` bytes of it were written.
Served(id, bytes) == [fmt |-> "served", body |-> id, bytes |-> bytes]
\* Image.open(...).load() succeeds on a whole image only.
Decodable(content) == content.fmt = "served" /\ content.bytes = BodyBytes
\* img.save(png_path, 'PNG') of a decoded image.
PngOf(content) == [fmt |-> "png", body |-> content.body, bytes |-> content.bytes]
\* A destination an I/O error left half written.
PngTorn(content) == [fmt |-> "png", body |-> content.body, bytes |-> 0]

(***************************************************************************)
(* Config Store: load_token, save_token.                                   *)
(***************************************************************************)
Token == <<"T">>
\* States of config.json.
ConfigStates ==
    { [exists |-> FALSE],
      [exists |-> TRUE, readable |-> FALSE],
      [exists |-> TRUE, readable |-> TRUE, json |-> "invalid"],
      [exists |-> TRUE, readable |-> TRUE, json |-> "array"],
      [exists |-> TRUE, readable |-> TRUE, json |-> "object", fields |-> [other |-> Token]],
      [exists |-> TRUE, readable |-> TRUE, json |-> "object", fields |-> [bot_token |-> << >>]],
      [exists |-> TRUE, readable |-> TRUE, json |-> "object", fields |-> [bot_token |-> Token]] }

\* What a call gives back: a value, or an exception that leaves the function.
Return(v) == [raised |-> FALSE, absent |-> FALSE, value |-> v]
ReturnNone == [raised |-> FALSE, absent |-> TRUE, value |-> << >>]
Raise(e) == [raised |-> TRUE, absent |-> FALSE, value |-> e]

load_token(file) ==
    IF ~file.exists THEN ReturnNone
    ELSE IF ~file.readable THEN Raise(<<"PermissionError">>)
    ELSE IF file.json = "invalid" THEN ReturnNone
    ELSE IF file.json # "object" THEN Raise(<<"AttributeError">>)
    ELSE IF "bot_token" \in DOMAIN file.fields THEN Return(file.fields.bot_token)
    ELSE ReturnNone

save_token(token) ==
    [exists |-> TRUE, readable |-> TRUE, json |-> "object", fields |-> [bot_token |-> token]]

(***************************************************************************)
(* The remote service and the disk: what the program cannot decide.        *)
(***************************************************************************)
Digits == <<"1", "2", "3", "4", "5", "6", "7", "8", "9">>
DotWebp == <<".", "w", "e", "b", "p">>
DotWEBP == <<".", "W", "E", "B", "P">>
DotTgs == <<".", "t", "g", "s">>
DotPng == <<".", "p", "n", "g">>

\* result.file_path of getFile: a directory, a name and an extension.
RemotePath(ext) == <<"d", "/", "f">> \o ext

\* A sticker of getStickerSet's result.stickers; file_id is its place in the pack.
Sticker(id, uid, emoji) == [file_id |-> id, file_unique_id |-> uid, emoji |-> emoji]
\* A sticker without an emoji annotation.
BareSticker(id, uid) == [file_id |-> id, file_unique_id |-> uid]

\* The pack an unpredictable service serves: sticker k has its own unique id, one
\* of four emoji annotations (a pictograph, none, the empty string, a letter and
\* a pictograph) and a file of one of three extensions.
PackSticker(k) ==
    LET uid == <<"U", Digits[k]>>
    IN  CASE k % 4 = 1 -> Sticker(k, uid, <<Duck>>)
          [] k % 4 = 2 -> BareSticker(k, uid)
          [] k % 4 = 3 -> Sticker(k, uid, << >>)
          [] OTHER     -> Sticker(k, uid, <<"B", Duck>>)
PackExt(k) ==
    CASE k % 3 = 1 -> DotWebp
      [] k % 3 = 2 -> DotTgs
      [] OTHER     -> DotWEBP
PackPrefix(n) == [k \in 1..n |-> PackSticker(k)]
\* Stickers lacking a key the loop reads with [].
NoFileId(k) == [file_unique_id |-> <<"U", Digits[k]>>]
NoUniqueId(k) == [file_id |-> k]
\* The loop stops at the first sticker lacking a key, so such a sticker is served last.
Packs(limit) ==
    {PackPrefix(n) : n \in 0..limit}
    \cup {[PackPrefix(n) EXCEPT ![n] = NoFileId(n)] : n \in 1..limit}
    \cup {[PackPrefix(n) EXCEPT ![n] = NoUniqueId(n)] : n \in 1..limit}

PackInfo(stickers) == [ok |-> TRUE, result |-> [title |-> <<"T">>, stickers |-> stickers]]
\* An answer of requests.get(...) to getStickerSet, as _make_api_request sees it:
\* a network error or an HTTP error status, or the JSON body.
PackAnswers(limit) ==
    { [error |-> TRUE],
      [error |-> FALSE, json |-> [ok |-> FALSE]],
      [error |-> FALSE, json |-> [ok |-> TRUE]],
      [error |-> FALSE, json |-> [ok |-> TRUE, result |-> [stickers |-> PackPrefix(0)]]],
      [error |-> FALSE, json |-> [ok |-> TRUE, result |-> [title |-> <<"T">>]]] }
    \cup {[error |-> FALSE, json |-> PackInfo(p)] : p \in Packs(limit)}

FileInfo(ext) == [ok |-> TRUE, result |-> [file_path |-> RemotePath(ext)]]
\* An answer to getFile for file_id id: an error, ok false, a result without
\* file_path (the Bot API gives none for a file it cannot serve), or the path.
FileAnswers(id) ==
    { [error |-> TRUE],
      [error |-> FALSE, json |-> [ok |-> FALSE]],
      [error |-> FALSE, json |-> [ok |-> TRUE, result |-> [file_id |-> id]]],
      [error |-> FALSE, json |-> FileInfo(PackExt(id))] }

\* An answer to the file fetch: a network error or an HTTP error status before
\* any byte, the whole body, or a stream that breaks after its first chunk.
FetchAnswers == {"error", "complete", "cut"}

\* The disk during _download_file: open(save_path, 'wb') works or raises OSError.
\* The disk during _convert_webp_to_png: all works, img.save raises an I/O error
\* (leaving the destination as it was, or half written), or os.remove raises.
DownloadDisk == {"ok", "open_fails"}
ConvertDisk == {"ok", "save_fails", "save_tears", "remove_fails"}

\* A service that cannot be predicted: any answer at every call, any disk state.
Unpredictable == [kind |-> "any"]

\* A stable service answers a call the same way whenever it is asked, and the
\* disk works. files[k] and fetches[k] are the answers for file_id k.
Stable(pack, files, fetches) ==
    [kind |-> "stable", pack |-> PackInfo(pack), files |-> files, fetches |-> fetches]

\* Stable services whose packs vary the names: a unique id that contains the
\* separator, an emoji annotation that is filtered away, kept or missing, several
\* extensions; every call works.
NameUids == {<<"A">>, <<"A", "_", "B">>}
NameEmojis == {<<Duck>>, <<"B">>}
NameExts == {DotWebp, DotPng, DotTgs}
NameStickers ==
    {Sticker(0, u, e) : u \in NameUids, e \in NameEmojis}
    \cup {BareSticker(0, u) : u \in NameUids}
NamePacks(n) ==
    {[k \in 1..n |-> [c[k] EXCEPT !.file_id = k]] : c \in [1..n -> NameStickers]}
NamingServices ==
    UNION { {Stable(p, [k \in 1..n |-> [error |-> FALSE, json |-> FileInfo(x[k])]],
                    [k \in 1..n |-> "complete"]) :
               p \in NamePacks(n), x \in [1..n -> NameExts]} : n \in 1..MaxPack }

\* Stable services whose answers vary: any answer to getFile and to the fetch.
FaultyServices ==
    UNION { {Stable(PackPrefix(n), f, d) :
               f \in {g \in [1..n -> UNION {FileAnswers(k) : k \in 1..n}] :
                         \A k \in 1..n : g[k] \in FileAnswers(k)},
               d \in [1..n -> FetchAnswers]} : n \in 1..MaxPack }

StableServices == NamingServices \cup FaultyServices

(***************************************************************************)
(* TelegramStickerDownloader: the helpers, as functions of what they read.  *)
(***************************************************************************)
\* Mutant of _make_api_request: no try/except around requests.get.
make_api_request_uncaught(answer) ==
    IF answer.error
    THEN [raised |-> TRUE, value |-> None, out |-> << >>]
    ELSE [raised |-> FALSE, value |-> answer.json, out |-> << >>]

\* _make_api_request: the JSON body, or None after printing the error.
make_api_request(answer) ==
    IF answer.error
    THEN [raised |-> FALSE, value |-> None, out |-> <<"Error making API request">>]
    ELSE [raised |-> FALSE, value |-> answer.json, out |-> << >>]

\* Mutant of the failure test: `not x`, the ok flag never read.
NotOk_flag_unread(x) == IsNone(x) \/ DOMAIN x = {}

\* `not x or not x.get("ok")` for a JSON object or None.
NotOk(x) == IsNone(x) \/ DOMAIN x = {} \/ "ok" \notin DOMAIN x \/ x.ok # TRUE

\* The lengths of the chunks iter_content yields for a body of `size` bytes.
RECURSIVE Chunks(_)
Chunks(size) ==
    IF size <= 0 THEN << >>
    ELSE IF size <= ChunkSize THEN <<size>>
    ELSE <<ChunkSize>> \o Chunks(size - ChunkSize)

RECURSIVE Sum(_)
Sum(seq) == IF seq = << >> THEN 0 ELSE Head(seq) + Sum(Tail(seq))

\* progress.update(task_id, total=...) and progress.update(task_id, advance=...)
SetTotal(task, total) == [task EXCEPT !.total = total]
Advance(task, n) == [task EXCEPT !.completed = @ + n]

\* _download_file(file_path, save_path, progress, task_id): the files and the
\* task afterwards, what was printed, and whether an exception left the method.
download_file(files, task, save_path, id, answer, disk) ==
    IF answer = "error"
    THEN [raised |-> FALSE, files |-> files, task |-> task,
          out |-> <<"Error downloading file">>]
    ELSE LET sized == SetTotal(task, BodyBytes)
             all == Chunks(BodyBytes)
             got == IF answer = "complete" THEN all ELSE SubSeq(all, 1, 1)
         IN  IF disk = "open_fails"
             THEN [raised |-> TRUE, files |-> files, task |-> sized, out |-> << >>]
             ELSE [raised |-> FALSE,
                   files |-> Put(files, save_path, Served(id, Sum(got))),
                   task |-> Advance(sized, Sum(got)),
                   out |-> IF answer = "complete" THEN << >>
                           ELSE <<"Error downloading file">>]

\* Mutant of _convert_webp_to_png: os.remove in a `finally`, run on failure too.
convert_webp_to_png_removes_anyway(files, webp_path, png_path, disk) ==
    IF webp_path \notin DOMAIN files
    THEN [files |-> files, out |-> <<"Error converting image">>]
    ELSE IF ~Decodable(files[webp_path]) \/ disk = "save_fails"
    THEN [files |-> Del(files, webp_path), out |-> <<"Error converting image">>]
    ELSE IF disk = "save_tears"
    THEN [files |-> Del(Put(files, png_path, PngTorn(files[webp_path])), webp_path),
          out |-> <<"Error converting image">>]
    ELSE IF disk = "remove_fails"
    THEN [files |-> Put(files, png_path, PngOf(files[webp_path])),
          out |-> <<"Error converting image">>]
    ELSE [files |-> Del(Put(files, png_path, PngOf(files[webp_path])), webp_path),
          out |-> << >>]

\* _convert_webp_to_png(webp_path, png_path): the files afterwards and what was
\* printed. No exception leaves it: `except Exception` catches them all.
convert_webp_to_png(files, webp_path, png_path, disk) ==
    IF webp_path \notin DOMAIN files \/ ~Decodable(files[webp_path])
    THEN [files |-> files, out |-> <<"Error converting image">>]
    ELSE IF disk = "save_fails"
    THEN [files |-> files, out |-> <<"Error converting image">>]
    ELSE IF disk = "save_tears"
    THEN [files |-> Put(files, png_path, PngTorn(files[webp_path])),
          out |-> <<"Error converting image">>]
    ELSE IF disk = "remove_fails"
    THEN [files |-> Put(files, png_path, PngOf(files[webp_path])),
          out |-> <<"Error converting image">>]
    ELSE [files |-> Del(Put(files, png_path, PngOf(files[webp_path])), webp_path),
          out |-> << >>]

\* Mutant of os.makedirs: exist_ok left out, FileExistsError on a folder that is there.
makedirs_exist_not_ok(dirs, output_folder, pack_folder) ==
    IF pack_folder \in dirs
    THEN [raised |-> TRUE, dirs |-> dirs]
    ELSE [raised |-> FALSE, dirs |-> dirs \cup {output_folder, pack_folder}]

\* os.makedirs(pack_folder, exist_ok=True): the directories afterwards.
makedirs(dirs, output_folder, pack_folder) ==
    [raised |-> FALSE, dirs |-> dirs \cup {output_folder, pack_folder}]

\* sticker.get('emoji', 'sticker') filtered by isalnum.
sanitized_emoji(sticker) ==
    KeepAlnum(IF "emoji" \in DOMAIN sticker THEN sticker.emoji
              ELSE <<"s", "t", "i", "c", "k", "e", "r">>)

\* Mutant of the file name: the emoji and the extension, without the unique id.
file_name_from_emoji(file_unique_id, sanitized, file_extension) ==
    sanitized \o file_extension

\* f"{file_unique_id}_{sanitized_emoji}{file_extension}"
file_name(file_unique_id, sanitized, file_extension) ==
    file_unique_id \o <<"_">> \o sanitized \o file_extension

\* Mutant of the extension test: no lower().
is_webp_case_sensitive(file_extension) == file_extension = DotWebp

\* if file_extension.lower() == ".webp"
is_webp(file_extension) == lower(file_extension) = DotWebp

(***************************************************************************)
(* State.                                                                  *)
(***************************************************************************)
VARIABLES
    pc,             \* where the process is: start, prompt, fetching, loop,
                    \* download, convert, exit, crashed (an uncaught exception)
    config,         \* the content of config.json
    bot_token,      \* main's bot_token, None before it is known
    world,          \* the remote service and the disk
    budget,         \* what is left of the session: calls of download_sticker_pack
                    \* and stickers served, each a number or Unlimited
    link,           \* sticker_pack_link of the current call
    pack_folder,    \* os.path.join(output_folder, pack_name)
    stickers,       \* pack_info['result']['stickers']
    i,              \* the place in stickers of the loop's current sticker
    cur,            \* the loop body's locals for the current sticker
    files,          \* the files on disk: path -> content
    dirs,           \* the directories on disk
    download_task,  \* the "Downloading" progress task
    convert_task,   \* the "Converting" progress task
    console,        \* what the last step printed, in order
    heard,          \* history: the call the last step made and the world's answer
    log,            \* history: what the loop did with each sticker so far
    returned        \* history: whether download_sticker_pack ever returned, and
                    \* the files when it last did

vars == <<pc, config, bot_token, world, budget, link, pack_folder, stickers,
          i, cur, files, dirs, download_task, convert_task, console, heard, log, returned>>

NoTask == [total |-> 0, completed |-> 0]
NoCur == [file_id |-> 0, file_path |-> << >>, file_extension |-> << >>,
          file_unique_id |-> << >>, sanitized_emoji |-> << >>,
          webp_save_path |-> << >>]

\* What the operator types at the link prompt.
Quit == <<"q", "u", "i", "t">>
QUIT == <<"Q", "U", "I", "T">>
PackLink == <<"t", "/", "P">>
Inputs == {Quit, QUIT, PackLink}

\* No call of the service in the last step.
Nothing == [call |-> "none"]
Heard(call, answer) == [call |-> call, answer |-> answer]

Unlimited == 0 - 1
Spend(left, n) == IF left = Unlimited THEN left ELSE left - n
Affords(left, n) == left = Unlimited \/ n <= left

InitWith(w, cfgs, calls, served) ==
    /\ pc = "start"
    /\ config \in cfgs
    /\ bot_token = None
    /\ world = w
    /\ budget = [calls |-> calls, stickers |-> served]
    /\ link = << >>
    /\ pack_folder = << >>
    /\ stickers = << >>
    /\ i = 0
    /\ cur = NoCur
    /\ files = NoFiles
    /\ dirs = {}
    /\ download_task = NoTask
    /\ convert_task = NoTask
    /\ console = << >>
    /\ heard = Nothing
    /\ log = << >>
    /\ returned = [ever |-> FALSE, files |-> NoFiles]

\* The process starts with any credential file and a service nobody can predict.
Init == InitWith(Unpredictable, ConfigStates, Unlimited, MaxStickers)

\* The process starts with a stored credential and a stable service.
InitStable ==
    \E w \in StableServices : InitWith(w, {save_token(Token)}, MaxRuns, Unlimited)

(***************************************************************************)
(* main: the credential, then the prompt loop.                             *)
(***************************************************************************)
\* main, lines 192-201: load the token; without one, ask for it and save it.
Start ==
    /\ pc = "start"
    /\ LET loaded == load_token(config)
       IN  IF loaded.raised
           THEN /\ pc' = "crashed"
                /\ console' = <<"Traceback">>
                /\ UNCHANGED <<config, bot_token>>
           ELSE IF loaded.absent \/ loaded.value = << >>
           THEN /\ bot_token' = [token |-> Token]
                /\ config' = save_token(Token)
                /\ pc' = "prompt"
                /\ console' = <<"No saved bot token found.", "Bot token saved for future sessions.">>
           ELSE /\ bot_token' = [token |-> loaded.value]
                /\ pc' = "prompt"
                /\ console' = <<"Saved bot token loaded.">>
                /\ UNCHANGED config
    /\ UNCHANGED <<world, budget, link, pack_folder, stickers, i, cur, files,
                   dirs, download_task, convert_task, heard, log, returned>>

\* main, lines 203-208: one turn of the prompt loop.
Ask ==
    /\ pc = "prompt"
    /\ \E input \in Inputs :
          IF lower(input) = Quit
          THEN /\ pc' = "exit"
               /\ console' = << >>
               /\ UNCHANGED <<budget, link, pack_folder, stickers, i, cur,
                              download_task, convert_task, log>>
          ELSE /\ Affords(budget.calls, 1)
               /\ pc' = "fetching"
               /\ budget' = [budget EXCEPT !.calls = Spend(@, 1)]
               /\ link' = input
               /\ pack_folder' = << >>
               /\ stickers' = << >>
               /\ i' = 0
               /\ cur' = NoCur
               /\ download_task' = NoTask
               /\ convert_task' = NoTask
               /\ console' = << >>
               /\ log' = << >>
    /\ heard' = Nothing
    /\ UNCHANGED <<config, bot_token, world, files, dirs, returned>>

(***************************************************************************)
(* download_sticker_pack, one action for each stretch between two calls of *)
(* the service.                                                            *)
(***************************************************************************)
\* What the world may answer.
PackAnswersNow ==
    IF world.kind = "any" THEN PackAnswers(budget.stickers)
    ELSE {[error |-> FALSE, json |-> world.pack]}
FileAnswersNow(id) ==
    IF world.kind = "any" THEN FileAnswers(id) ELSE {world.files[id]}
FetchAnswersNow(id) ==
    IF world.kind = "any" THEN FetchAnswers ELSE {world.fetches[id]}
DiskNow(states) == IF world.kind = "any" THEN states ELSE {"ok"}

\* The log's line for a sticker whose lookup failed, and for one that resolved.
Skipped(id) ==
    [file_id |-> id, resolved |-> FALSE, file_unique_id |-> << >>,
     file_extension |-> << >>, saved_to |-> << >>, converter |-> FALSE,
     converted_to |-> << >>]
Processed(c, called, png_save_path) ==
    [file_id |-> c.file_id, resolved |-> TRUE, file_unique_id |-> c.file_unique_id,
     file_extension |-> c.file_extension, saved_to |-> c.webp_save_path,
     converter |-> called, converted_to |-> png_save_path]

\* An uncaught exception: the process ends with a traceback.
Crash(unchanged) == pc' = "crashed" /\ console' = <<"Traceback">> /\ unchanged

\* Lines 108-134: fetch the pack, make its folder, set up the progress tasks.
GetStickerSet ==
    /\ pc = "fetching"
    /\ \E answer \in PackAnswersNow :
        LET request == make_api_request(answer)
            pack_info == request.value
            folder == path_join(OUTPUT_FOLDER, LastSegment(link))
            made == makedirs(dirs, OUTPUT_FOLDER, folder)
        IN  heard' = Heard("getStickerSet", answer) /\
            IF request.raised
            THEN Crash(UNCHANGED <<budget, pack_folder, stickers, i, dirs,
                                   download_task, convert_task, returned>>)
            ELSE IF NotOk(pack_info)
            THEN /\ console' = request.out \o <<"Could not retrieve sticker pack information">>
                 /\ pc' = "prompt"
                 /\ returned' = [ever |-> TRUE, files |-> files]
                 /\ UNCHANGED <<budget, pack_folder, stickers, i, dirs,
                                download_task, convert_task>>
            ELSE IF made.raised
            THEN Crash(UNCHANGED <<budget, pack_folder, stickers, i, dirs,
                                   download_task, convert_task, returned>>)
            ELSE IF "result" \notin DOMAIN pack_info
                    \/ "title" \notin DOMAIN pack_info.result
            THEN /\ pc' = "crashed"
                 /\ pack_folder' = folder
                 /\ dirs' = made.dirs
                 /\ console' = <<"Traceback">>
                 /\ UNCHANGED <<budget, stickers, i, download_task, convert_task,
                                returned>>
            ELSE IF "stickers" \notin DOMAIN pack_info.result
            THEN /\ pc' = "crashed"
                 /\ pack_folder' = folder
                 /\ dirs' = made.dirs
                 /\ console' = <<"Downloading Sticker Pack", "Traceback">>
                 /\ UNCHANGED <<budget, stickers, i, download_task, convert_task,
                                returned>>
            ELSE /\ pc' = "loop"
                 /\ pack_folder' = folder
                 /\ dirs' = made.dirs
                 /\ console' = <<"Downloading Sticker Pack">>
                 /\ stickers' = pack_info.result.stickers
                 /\ budget' = [budget EXCEPT !.stickers = Spend(@, Len(pack_info.result.stickers))]
                 /\ download_task' = [total |-> Len(pack_info.result.stickers), completed |-> 0]
                 /\ convert_task' = [total |-> Len(pack_info.result.stickers), completed |-> 0]
                 /\ i' = 1
                 /\ UNCHANGED returned
    /\ UNCHANGED <<config, bot_token, world, link, cur, files, log>>

\* Lines 136-149 and 160: look the next sticker's file up; name its file, or
\* skip the sticker.
GetFileInfo ==
    /\ pc = "loop"
    /\ i <= Len(stickers)
    /\ LET sticker == stickers[i]
       IN  IF "file_id" \notin DOMAIN sticker
           THEN Crash(heard' = Nothing /\ UNCHANGED <<i, cur, download_task, log>>)
           ELSE \E answer \in FileAnswersNow(sticker.file_id) :
               LET request == make_api_request(answer)
                   file_info == request.value
               IN  heard' = Heard("getFile", answer) /\
                   IF request.raised
                   THEN Crash(UNCHANGED <<i, cur, download_task, log>>)
                   ELSE IF NotOk(file_info)
                   THEN /\ download_task' = Advance(download_task, 1)
                        /\ i' = i + 1
                        /\ console' = request.out
                        /\ log' = Append(log, Skipped(sticker.file_id))
                        /\ UNCHANGED <<pc, cur>>
                   ELSE IF "result" \notin DOMAIN file_info
                           \/ "file_path" \notin DOMAIN file_info.result
                           \/ "file_unique_id" \notin DOMAIN sticker
                   THEN Crash(UNCHANGED <<i, cur, download_task, log>>)
                   ELSE LET file_path == file_info.result.file_path
                            file_extension == splitext(file_path)[2]
                            sanitized == sanitized_emoji(sticker)
                            name == file_name(sticker.file_unique_id, sanitized, file_extension)
                        IN  /\ cur' = [file_id |-> sticker.file_id,
                                       file_path |-> file_path,
                                       file_extension |-> file_extension,
                                       file_unique_id |-> sticker.file_unique_id,
                                       sanitized_emoji |-> sanitized,
                                       webp_save_path |-> path_join(pack_folder, name)]
                            /\ pc' = "download"
                            /\ console' = << >>
                            /\ UNCHANGED <<i, download_task, log>>
    /\ UNCHANGED <<config, bot_token, world, budget, link, pack_folder, stickers,
                   files, dirs, convert_task, returned>>

\* Line 151: _download_file.
DownloadFile ==
    /\ pc = "download"
    /\ \E answer \in FetchAnswersNow(cur.file_id), disk \in DiskNow(DownloadDisk) :
        LET got == download_file(files, download_task, cur.webp_save_path,
                                 cur.file_id, answer, disk)
        IN  /\ heard' = Heard("fetch", [status |-> answer, disk |-> disk])
            /\ pc' = IF got.raised THEN "crashed" ELSE "convert"
            /\ files' = got.files
            /\ download_task' = got.task
            /\ console' = IF got.raised THEN <<"Traceback">> ELSE got.out
    /\ UNCHANGED <<config, bot_token, world, budget, link, pack_folder, stickers,
                   i, cur, dirs, convert_task, log, returned>>

\* f"{file_unique_id}_{sanitized_emoji}.png" in the pack folder.
png_save_path(c) ==
    path_join(pack_folder, file_name(c.file_unique_id, c.sanitized_emoji, DotPng))

\* Lines 153-160: convert a .webp file, then advance both progress tasks.
ConvertAndAdvance ==
    /\ pc = "convert"
    /\ \E disk \in DiskNow(ConvertDisk) :
        LET called == is_webp(cur.file_extension)
            done == convert_webp_to_png(files, cur.webp_save_path, png_save_path(cur), disk)
        IN  /\ files' = IF called THEN done.files ELSE files
            /\ console' = IF called THEN done.out ELSE << >>
            /\ log' = Append(log, Processed(cur, called,
                                  IF called THEN png_save_path(cur) ELSE << >>))
    /\ heard' = Nothing
    /\ convert_task' = Advance(convert_task, 1)
    /\ download_task' = Advance(download_task, 1)
    /\ i' = i + 1
    /\ cur' = NoCur
    /\ pc' = "loop"
    /\ UNCHANGED <<config, bot_token, world, budget, link, pack_folder, stickers,
                   dirs, returned>>

\* Line 163: the loop is over; print the completion panel and return.
Finish ==
    /\ pc = "loop"
    /\ i > Len(stickers)
    /\ console' = <<"Sticker pack download complete!">>
    /\ pc' = "prompt"
    /\ returned' = [ever |-> TRUE, files |-> files]
    /\ heard' = Nothing
    /\ UNCHANGED <<config, bot_token, world, budget, link, pack_folder, stickers,
                   i, cur, files, dirs, download_task, convert_task, log>>

Next ==
    \/ Start
    \/ Ask
    \/ GetStickerSet
    \/ GetFileInfo
    \/ DownloadFile
    \/ ConvertAndAdvance
    \/ Finish

Spec == Init /\ [][Next]_vars

SpecStable == InitStable /\ [][Next]_vars

(***************************************************************************)
(* Properties.                                                             *)
(***************************************************************************)
Range(seq) == {seq[k] : k \in DOMAIN seq}
Last(seq) == seq[Len(seq)]
\* The loop is between two stickers, or past the last one.
LoopOver == pc = "loop" /\ i > Len(stickers)
\* A call whose answer the caller treats as a failure: a request error or a
\* body whose ok flag is not true.
Failed(call) ==
    /\ heard.call = call
    /\ (heard.answer.error \/ heard.answer.json.ok # TRUE)
\* The stem of a path: its last component without the extension.
Stem(path) == LastSegment(splitext(path)[1])
\* The annotation of a sticker, empty when it has none.
Annotation(sticker) == IF "emoji" \in DOMAIN sticker THEN sticker.emoji ELSE << >>
Placeholder == <<"s", "t", "i", "c", "k", "e", "r">>

\* C1: for every sticker whose location resolved, the stem of the file that is
\* written is <unique_id>_<the alphanumeric characters of the emoji>, and
\* <unique_id>_sticker when no alphanumeric character is left (no annotation,
\* an empty one, or a pictograph).
C1_StemIsIdThenEmojiOrPlaceholder ==
    pc \in {"download", "convert"} =>
        LET kept == KeepAlnum(Annotation(stickers[i]))
        IN  Stem(cur.webp_save_path)
              = stickers[i].file_unique_id \o <<"_">>
                \o (IF kept = << >> THEN Placeholder ELSE kept)

\* The paths the loop wrote for one sticker: the download and its .png sibling.
Outputs(entry) ==
    {entry.saved_to} \cup (IF entry.converter THEN {entry.converted_to} ELSE {})

\* C2: in one call, two stickers with distinct file_unique_id are written to
\* distinct paths, the download as well as the converted .png, whatever their
\* emoji annotations and extensions.
C2_DistinctIdsDistinctPaths ==
    \A j, k \in DOMAIN log :
        (/\ j # k
         /\ log[j].resolved
         /\ log[k].resolved
         /\ log[j].file_unique_id # log[k].file_unique_id)
        => Outputs(log[j]) \cap Outputs(log[k]) = {}

\* Two stickers with distinct ids, both without annotation, both with the same
\* extension and both converted, have been written.
C2_Witness ==
    \E j, k \in DOMAIN log :
        /\ j # k
        /\ log[j].resolved /\ log[k].resolved
        /\ log[j].file_unique_id # log[k].file_unique_id
        /\ "emoji" \notin DOMAIN stickers[j] /\ "emoji" \notin DOMAIN stickers[k]
        /\ log[j].file_extension = log[k].file_extension
        /\ log[j].converter /\ log[k].converter

\* C3: when the pack fetch fails (request error or ok flag false),
\* download_sticker_pack prints the error and returns without a sticker
\* processed, a directory created or a file written.
C3_FailedPackFetchChangesNothing ==
    [][(pc = "fetching" /\ Failed("getStickerSet")') =>
          /\ pc' = "prompt"
          /\ "Could not retrieve sticker pack information" \in Range(console')
          /\ files' = files
          /\ dirs' = dirs
          /\ stickers' = << >>
          /\ log' = << >>]_vars

\* The first pack fetch of a session came back with ok false.
C3_Witness ==
    /\ pc = "prompt"
    /\ Failed("getStickerSet")
    /\ ~heard.answer.error
    /\ dirs = {}

\* The log accounts for the stickers before the current one, in the order of
\* the pack: a resolved one was downloaded to a path in the pack folder and handed
\* to the converter when its extension is .webp.
InOrder ==
    /\ Len(log) = i - 1
    /\ \A k \in DOMAIN log :
          /\ log[k].file_id = stickers[k].file_id
          /\ log[k].resolved =>
                /\ log[k].saved_to # << >>
                /\ log[k].converter <=> (lower(log[k].file_extension) = DotWebp)

\* C4: a sticker whose file lookup fails (request error or ok flag false) is
\* skipped, the loop goes on with the next sticker in the order received, and
\* when the loop is over the completion message is printed.
C4_FailedLookupSkipsOneSticker ==
    [][/\ (pc = "loop" /\ Failed("getFile")') =>
             /\ pc' = "loop"
             /\ i' = i + 1
             /\ files' = files
             /\ Len(log') = Len(log) + 1
             /\ ~Last(log').resolved
       /\ pc' = "loop" => InOrder'
       /\ LoopOver =>
             /\ pc' = "prompt"
             /\ console' = <<"Sticker pack download complete!">>]_vars

\* A call returned after a pack of three whose second lookup failed and whose
\* first and third stickers were downloaded and converted.
C4_Witness ==
    /\ pc = "prompt"
    /\ console = <<"Sticker pack download complete!">>
    /\ Len(log) = 3
    /\ log[1].resolved /\ log[1].converter
    /\ ~log[2].resolved
    /\ log[3].resolved /\ log[3].converter

\* C5: load_token never raises: whatever config.json holds, it returns the
\* stored credential or absence.
C5_LoadTokenNeverRaises == ~load_token(config).raised

\* C6: no failure inside download_sticker_pack ends the process: whatever the
\* service answers and the disk does, the call returns to the prompt.
C6_DownloadNeverCrashes == ~(pc = "crashed" /\ ~IsNone(bot_token))

\* C7: _convert_webp_to_png removes the source only after it was opened and
\* re-encoded to the destination; when opening or re-encoding fails the source
\* is left as it was and the failure is printed, not raised.
C7_SourceRemovedOnlyAfterConversion ==
    [][(pc = "convert" /\ lower(cur.file_extension) = DotWebp) =>
          LET src == cur.webp_save_path
              dst == splitext(cur.webp_save_path)[1] \o DotPng
          IN  /\ pc' = "loop"
              /\ (src \in DOMAIN files /\ src \notin DOMAIN files') =>
                    /\ Decodable(files[src])
                    /\ dst \in DOMAIN files'
                    /\ files'[dst] = PngOf(files[src])
                    /\ console' = << >>
              /\ (src \notin DOMAIN files \/ ~Decodable(files[src])) =>
                    console' = <<"Error converting image">>
              /\ console' # << >> =>
                    /\ console' = <<"Error converting image">>
                    /\ src \in DOMAIN files =>
                          (src \in DOMAIN files' /\ files'[src] = files[src])]_vars

\* A conversion failed on a source that could not be decoded, and the source is
\* still on disk.
C7_Witness ==
    /\ pc = "loop"
    /\ log # << >>
    /\ Last(log).converter
    /\ console = <<"Error converting image">>
    /\ Last(log).saved_to \in DOMAIN files
    /\ ~Decodable(files[Last(log).saved_to])

\* C8: with a service that answers the same way again, a call of
\* download_sticker_pack after one that returned does not fail, and it ends with
\* the same files, of the same contents, as the call before.
C8_SecondRunSameFiles ==
    /\ returned.ever => pc # "crashed"
    /\ (returned.ever /\ LoopOver) => files = returned.files

\* A second call is over, in a pack folder that was there, with files on disk.
C8_Witness ==
    /\ returned.ever
    /\ LoopOver
    /\ Len(stickers) >= 2
    /\ pack_folder \in dirs
    /\ \E p \in DOMAIN files : files[p].fmt = "png"
    /\ \E p \in DOMAIN files : files[p].fmt = "served"

\* C9: the download task counts stickers, never bytes: its total stays the
\* number of stickers and it has advanced by one for each sticker done.
C9_DownloadTaskCountsStickers ==
    pc \in {"loop", "download", "convert"} =>
        /\ download_task.total = Len(stickers)
        /\ download_task.completed = Len(log)

\* The converter is called for a resolved sticker exactly when its extension is
\* .webp in any case, on the sibling path with the same stem and .png.
ConverterRule ==
    \A k \in DOMAIN log :
        log[k].resolved =>
            /\ log[k].converter <=> (lower(log[k].file_extension) = DotWebp)
            /\ log[k].converter =>
                  log[k].converted_to = splitext(log[k].saved_to)[1] \o DotPng
            /\ ~log[k].converter => log[k].converted_to = << >>

\* C10 as claimed: the converter rule, and the convert task advances by one
\* for the converted stickers only.
C10_ConvertTaskCountsConversions ==
    /\ ConverterRule
    /\ convert_task.completed = Cardinality({k \in DOMAIN log : log[k].converter})

\* C10 as amended: the converter rule, and the convert task advances by one for
\* every sticker whose location resolved and whose download step returned,
\* converted or not; a sticker whose lookup failed does not advance it.
C10_ConvertTaskCountsResolved ==
    /\ ConverterRule
    /\ convert_task.completed = Cardinality({k \in DOMAIN log : log[k].resolved})

\* A .tgs sticker went through without conversion and a .WEBP one was converted.
C10_Witness ==
    /\ pc = "loop"
    /\ \E k \in DOMAIN log :
          log[k].resolved /\ ~log[k].converter /\ log[k].file_extension = DotTgs
    /\ \E k \in DOMAIN log :
          log[k].resolved /\ log[k].converter /\ log[k].file_extension = DotWEBP
    /\ \E k \in DOMAIN log : ~log[k].resolved

====
